---- MODULE Spec2Model ----
(***************************************************************************)
(* Model of src/api.py: the cross-thread dispatcher run_in_agent_thread,   *)
(* the agent thread (background_start_agent / start_agent) with its        *)
(* asyncio event loop, the readiness latch agent_ready, and the endpoint   *)
(* guards in front of the dispatcher.                                      *)
(*                                                                         *)
(* Threads: the main thread (__main__), the agent thread (one event loop,  *)
(* handles run one at a time in FIFO order), and one caller per request.   *)
(* The operations of Agent / UML_Agent are opaque: a started operation     *)
(* finishes at an arbitrary later time by returning a value, raising an    *)
(* Exception, or raising SystemExit/KeyboardInterrupt (which asyncio       *)
(* re-raises out of run_forever / run_until_complete).                     *)
(***************************************************************************)
EXTENDS Naturals, Sequences, FiniteSets

\* Number of requests served in one run (bound of the model).
MaxCalls == 2

\* __main__: timeout = 30 (seconds) and time.sleep(0.5) in the wait loop.
StartupTimeout == 30
SleepsPerSecond == 2

Calls == 1 .. MaxCalls

\* The endpoints that submit an operation through run_in_agent_thread.
Endpoints == {"chat", "create_index", "delete_index", "update_label", "generate_uml"}

VARIABLES
    agent,        \* global agent: "obj" or "None" (api.py:73, :180)
    agent_ready,  \* threading.Event agent_ready (api.py:75)
    agent_loop,   \* global agent_loop: "None", "open" or "closed" (api.py:80, :192, :206)
    wpc,          \* position of the agent thread in background_start_agent
    mpc,          \* position of the main thread in __main__
    waited,       \* half-seconds spent in the startup wait loop of __main__ (0 once it is left)
    initLog,      \* setup routines that have completed successfully, in order
    initFailed,   \* start_agent has taken its except branch
    ready,        \* the loop's FIFO of handles put there by call_soon(_threadsafe)
    pc,           \* per request: position of the caller
    endpoint,     \* per request: the endpoint it entered
    future,       \* per request: response_future (a concurrent.futures.Future)
    task,         \* per request: state of the asyncio Task created by run_in_loop
    taskOutcome,  \* per request: what the operation's task produced
    result,       \* per request: what the caller got back
    invoked,      \* per request: number of times coro_func was called
    overlap,      \* some request was entered while an earlier one was unanswered
    executing     \* handles the agent thread's loop has picked and not yet finished

vars == <<agent, agent_ready, agent_loop, wpc, mpc, waited, initLog, initFailed, ready,
          pc, endpoint, future, task, taskOutcome, result, invoked,
          overlap, executing>>

workerVars == <<agent, agent_ready, agent_loop, wpc, initLog, initFailed>>
callerVars == <<pc, endpoint, result, overlap>>
loopVars   == <<ready, future, task, taskOutcome, invoked>>

\* An outcome slot: kind "unset", "val" (returned), "err" (raised an Exception)
\* or "exit" (raised SystemExit / KeyboardInterrupt); `of` is the request
\* whose operation produced it (0 for none).
Unset == [kind |-> "unset", of |-> 0]
Outcome(k, c) == [kind |-> k, of |-> c]

\* What a caller gets back.
NoResult == [status |-> "none", of |-> 0]
Res(s, c) == [status |-> s, of |-> c]

Init ==
    /\ agent = "obj"
    /\ agent_ready = FALSE
    /\ agent_loop = "None"
    /\ wpc = "unstarted"
    /\ mpc = "start"
    /\ waited = 0
    /\ initLog = <<>>
    /\ initFailed = FALSE
    /\ ready = <<>>
    /\ pc = [c \in Calls |-> "idle"]
    /\ endpoint = [c \in Calls |-> "none"]
    /\ future = [c \in Calls |-> Unset]
    /\ task = [c \in Calls |-> "none"]
    /\ taskOutcome = [c \in Calls |-> Unset]
    /\ result = [c \in Calls |-> NoResult]
    /\ invoked = [c \in Calls |-> 0]
    /\ overlap = FALSE
    /\ executing = {}

----------------------------------------------------------------------------
(* Main thread: __main__                                                   *)

\* agent_thread.start(); start_time = time.time()
ThreadStart ==
    /\ UNCHANGED executing
    /\ mpc = "start"
    /\ mpc' = "waiting"
    /\ waited' = 0
    /\ wpc' = "new_loop"
    /\ UNCHANGED <<agent, agent_ready, agent_loop, initLog, initFailed>>
    /\ UNCHANGED <<callerVars, loopVars>>

\* The time the wait loop has spent reaches the timeout.
WaitElapsed == waited >= StartupTimeout * SleepsPerSecond

\* One turn of the wait loop: agent_ready unset, timeout not reached, sleep.
\* The turn takes half a second or longer (n half-seconds).
MainSleep ==
    /\ UNCHANGED executing
    /\ mpc = "waiting"
    /\ ~agent_ready
    /\ ~WaitElapsed
    /\ \E n \in 1 .. (StartupTimeout * SleepsPerSecond - waited) : waited' = waited + n
    /\ UNCHANGED <<mpc, workerVars, callerVars, loopVars>>

\* The wait loop ends because agent_ready is set; uvicorn.run follows.
MainSeesReady ==
    /\ UNCHANGED executing
    /\ mpc = "waiting"
    /\ agent_ready
    /\ mpc' = "serving"
    /\ waited' = 0
    /\ UNCHANGED <<workerVars, callerVars, loopVars>>

\* Variant of MainStartupTimeout: uvicorn.run without the wait loop.
MainStartupTimeout_NoWait ==
    /\ UNCHANGED executing
    /\ mpc = "waiting"
    /\ ~agent_ready
    /\ mpc' = "serving"
    /\ waited' = 0
    /\ UNCHANGED <<workerVars, callerVars, loopVars>>

\* The wait loop ends because the timeout has elapsed with agent_ready unset;
\* the warning is printed and uvicorn.run follows.
MainStartupTimeout ==
    /\ UNCHANGED executing
    /\ mpc = "waiting"
    /\ ~agent_ready
    /\ WaitElapsed
    /\ mpc' = "serving"
    /\ waited' = 0
    /\ UNCHANGED <<workerVars, callerVars, loopVars>>

----------------------------------------------------------------------------
(* Agent thread: background_start_agent and start_agent                    *)

\* loop = asyncio.new_event_loop(); agent_loop = loop
CreateLoop ==
    /\ UNCHANGED executing
    /\ wpc = "new_loop"
    /\ agent_loop' = "open"
    /\ wpc' = "agent_setup"
    /\ UNCHANGED <<agent, agent_ready, initLog, initFailed, mpc, waited>>
    /\ UNCHANGED <<callerVars, loopVars>>

\* await agent.setup() returns
AgentSetupOk ==
    /\ executing' = executing \ {<<"start_agent", 0>>}
    /\ wpc = "agent_setup"
    /\ initLog' = Append(initLog, "agent.setup")
    /\ wpc' = "uml_setup"
    /\ UNCHANGED <<agent, agent_ready, agent_loop, initFailed, mpc, waited>>
    /\ UNCHANGED <<callerVars, loopVars>>

\* Variant of StartAgentExcept: the latch is released on the failure path too
\* (agent_ready.set() moved out of the try body).
StartAgentExcept_SetsReady ==
    /\ executing' = executing \ {<<"start_agent", 0>>}
    /\ agent' = "None"
    /\ initFailed' = TRUE
    /\ agent_ready' = TRUE
    /\ wpc' = "run_forever"
    /\ UNCHANGED <<agent_loop, initLog, mpc, waited>>
    /\ UNCHANGED <<callerVars, loopVars>>

\* The except branch of start_agent: agent = None, agent_ready left alone.
StartAgentExcept ==
    /\ executing' = executing \ {<<"start_agent", 0>>}
    /\ agent' = "None"
    /\ initFailed' = TRUE
    /\ wpc' = "run_forever"
    /\ UNCHANGED <<agent_ready, agent_loop, initLog, mpc, waited>>
    /\ UNCHANGED <<callerVars, loopVars>>

\* await agent.setup() raises an Exception
AgentSetupFail ==
    /\ wpc = "agent_setup"
    /\ StartAgentExcept

\* await umlAgent.setup() returns; agent_ready.set(); start_agent returns and
\* background_start_agent goes on to loop.run_forever()
UmlSetupOk ==
    /\ executing' = executing \ {<<"start_agent", 0>>}
    /\ wpc = "uml_setup"
    /\ initLog' = Append(initLog, "umlAgent.setup")
    /\ agent_ready' = TRUE
    /\ wpc' = "run_forever"
    /\ UNCHANGED <<agent, agent_loop, initFailed, mpc, waited>>
    /\ UNCHANGED <<callerVars, loopVars>>

\* await umlAgent.setup() raises an Exception
UmlSetupFail ==
    /\ wpc = "uml_setup"
    /\ StartAgentExcept

\* The loop is processing handles: inside run_until_complete(start_agent())
\* while a setup routine is suspended, or inside run_forever().
LoopRunning == wpc \in {"agent_setup", "uml_setup", "run_forever"}


\* Variant of LoopClose: the finally block also clears the latch.
LoopClose_ClearsReady ==
    /\ UNCHANGED executing
    /\ wpc = "stopped"
    /\ agent_loop' = "closed"
    /\ agent_ready' = FALSE
    /\ wpc' = "closed"
    /\ UNCHANGED <<agent, initLog, initFailed, mpc, waited>>
    /\ UNCHANGED <<callerVars, loopVars>>

\* An exception that asyncio does not contain (SystemExit, KeyboardInterrupt)
\* has left run_until_complete / run_forever; the finally block closes the loop.
LoopClose ==
    /\ UNCHANGED executing
    /\ wpc = "stopped"
    /\ agent_loop' = "closed"
    /\ wpc' = "closed"
    /\ UNCHANGED <<agent, agent_ready, initLog, initFailed, mpc, waited>>
    /\ UNCHANGED <<callerVars, loopVars>>

----------------------------------------------------------------------------
(* Endpoints, up to their call of run_in_agent_thread                      *)

\* The endpoints that test `not agent or not agent_ready.is_set()` first.
ChecksReadiness(e) == e \in {"chat", "update_label"}

\* The readiness guard of an endpoint answers "not ready".
NotReadyGuard(e) == ChecksReadiness(e) /\ (agent = "None" \/ ~agent_ready)

\* The global whose bound method the endpoint passes as coro_func.
CapabilityRef(e) == IF e = "generate_uml" THEN "umlAgent" ELSE "agent"

\* Evaluating <ref>.<operation> raises AttributeError: only `agent` is ever
\* rebound to None; umlAgent is assigned once, at import.
RefIsNull(e) == CapabilityRef(e) = "agent" /\ agent = "None"

\* Variant of LoopUnavailable: the is_closed() half of the test is missing.
LoopUnavailable_NoneOnly == agent_loop = "None"

\* `agent_loop is None or agent_loop.is_closed()`
LoopUnavailable == agent_loop = "None" \/ agent_loop = "closed"

\* Only update_label repeats the loop test before the dispatcher.
EndpointLoopGuard(e) == e = "update_label" /\ LoopUnavailable

\* What the endpoint does before run_in_agent_thread is entered.
EntryResult(e) ==
    IF NotReadyGuard(e) THEN "NotReady"
    ELSE IF EndpointLoopGuard(e) THEN "Unavailable"
    ELSE IF RefIsNull(e) THEN "NullCapability"
    ELSE "submit"

\* Requests are numbered in order of arrival; uvicorn.run is reached only
\* after the startup wait of __main__.
Enter(c, e) ==
    /\ UNCHANGED executing
    /\ mpc = "serving"
    /\ pc[c] = "idle"
    /\ \A d \in Calls : d < c => pc[d] # "idle"
    /\ endpoint' = [endpoint EXCEPT ![c] = e]
    /\ overlap' = (overlap \/ \E d \in Calls : pc[d] \notin {"idle", "done"})
    /\ IF EntryResult(e) = "submit"
         THEN /\ pc' = [pc EXCEPT ![c] = "submit"]
              /\ UNCHANGED result
         ELSE /\ pc' = [pc EXCEPT ![c] = "done"]
              /\ result' = [result EXCEPT ![c] = Res(EntryResult(e), 0)]
    /\ UNCHANGED <<workerVars, mpc, waited, loopVars>>

----------------------------------------------------------------------------
(* run_in_agent_thread, caller side                                        *)

\* The precondition test; on success response_future is created.
Precondition(c) ==
    /\ UNCHANGED executing
    /\ pc[c] = "submit"
    /\ IF LoopUnavailable
         THEN /\ pc' = [pc EXCEPT ![c] = "done"]
              /\ result' = [result EXCEPT ![c] = Res("Unavailable", 0)]
         ELSE /\ pc' = [pc EXCEPT ![c] = "enqueue"]
              /\ UNCHANGED result
    /\ UNCHANGED <<workerVars, mpc, waited, endpoint, overlap, loopVars>>

\* agent_loop.call_soon_threadsafe(run_in_loop): raises RuntimeError when the
\* loop has been closed since the test, appends the handle otherwise.
Enqueue(c) ==
    /\ UNCHANGED executing
    /\ pc[c] = "enqueue"
    /\ IF agent_loop = "closed"
         THEN /\ pc' = [pc EXCEPT ![c] = "done"]
              /\ result' = [result EXCEPT ![c] = Res("Unavailable", 0)]
              /\ UNCHANGED ready
         ELSE /\ pc' = [pc EXCEPT ![c] = "wait"]
              /\ ready' = Append(ready, <<"run_in_loop", c>>)
              /\ UNCHANGED result
    /\ UNCHANGED <<workerVars, mpc, waited, endpoint, overlap, future, task, taskOutcome, invoked>>

\* Variant of Translate: a stored exception is handed back as a value.
Translate_AlwaysSuccess(f) == Res("success", f.of)

\* Future.result: a result comes back as the return value, an exception is
\* re-raised in the caller.
Translate(f) ==
    IF f.kind = "val" THEN Res("success", f.of) ELSE Res("WorkerException", f.of)

\* Variant of AwaitResult: the caller does not wait for response_future and
\* reports success as soon as the trampoline is enqueued.
AwaitResult_NoWait(c) ==
    /\ UNCHANGED executing
    /\ pc[c] = "wait"
    /\ pc' = [pc EXCEPT ![c] = "done"]
    /\ result' = [result EXCEPT ![c] = Res("success", c)]
    /\ UNCHANGED <<workerVars, mpc, waited, endpoint, overlap, loopVars>>

\* response_future.result(timeout=...) finds the future finished.
AwaitResult(c) ==
    /\ UNCHANGED executing
    /\ pc[c] = "wait"
    /\ future[c] # Unset
    /\ pc' = [pc EXCEPT ![c] = "done"]
    /\ result' = [result EXCEPT ![c] = Translate(future[c])]
    /\ UNCHANGED <<workerVars, mpc, waited, endpoint, overlap, loopVars>>

\* Variant of TaskAfterTimeout: the timeout cancels a task still running.
TaskAfterTimeout_Cancel(c) == IF task[c] = "running" THEN "cancelled" ELSE task[c]

\* What a caller's timeout does to its task: nothing.
TaskAfterTimeout(c) == task[c]

\* Variant of AwaitTimeout: the wait has no deadline (timeout=None).
AwaitTimeout_Never(c) ==
    /\ FALSE
    /\ UNCHANGED vars

\* Variant of AwaitTimeout: on timeout the trampoline is scheduled once more.
AwaitTimeout_Retries(c) ==
    /\ UNCHANGED executing
    /\ pc[c] = "wait"
    /\ future[c] = Unset
    /\ agent_loop = "open"
    /\ pc' = [pc EXCEPT ![c] = "done"]
    /\ result' = [result EXCEPT ![c] = Res("Timeout", 0)]
    /\ ready' = Append(ready, <<"run_in_loop", c>>)
    /\ UNCHANGED <<workerVars, mpc, waited, endpoint, overlap, future, task, taskOutcome, invoked>>

\* response_future.result(timeout=...) raises concurrent.futures.TimeoutError:
\* the deadline elapsed with the future still pending.
AwaitTimeout(c) ==
    /\ UNCHANGED executing
    /\ pc[c] = "wait"
    /\ future[c] = Unset
    /\ pc' = [pc EXCEPT ![c] = "done"]
    /\ result' = [result EXCEPT ![c] = Res("Timeout", 0)]
    /\ task' = [task EXCEPT ![c] = TaskAfterTimeout(c)]
    /\ UNCHANGED <<workerVars, mpc, waited, endpoint, overlap, ready, future, taskOutcome, invoked>>

----------------------------------------------------------------------------
(* run_in_agent_thread, agent-thread side                                  *)

\* Variant of FutureOf: one future object is reused by all requests.
FutureOf_Shared(c) == 1

\* Variant of FutureOf: response_future is a module global, rebound by every
\* call that passes the precondition test.
FutureOf_Latest(c) ==
    CHOOSE d \in Calls :
        /\ pc[d] \notin {"idle", "submit"}
        /\ \A e \in Calls : e > d => pc[e] \in {"idle", "submit"}

\* The future a callback of request c writes: the response_future of its
\* own closure.
FutureOf(c) == c

\* Variant of RunInLoopStart: response_future is completed when the task is
\* created instead of in its done callback.
RunInLoopStart_SignalsEarly(c) ==
    /\ executing' = executing \ {<<"run_in_loop", c>>}
    /\ LoopRunning
    /\ ready # <<>>
    /\ Head(ready) = <<"run_in_loop", c>>
    /\ ready' = Tail(ready)
    /\ task' = [task EXCEPT ![c] = "running"]
    /\ invoked' = [invoked EXCEPT ![c] = @ + 1]
    /\ future' = [future EXCEPT ![c] = Outcome("val", c)]
    /\ UNCHANGED <<workerVars, mpc, waited, callerVars, taskOutcome>>

\* run_in_loop, try branch: coro_func(...) and create_task succeed, the done
\* callback is attached.
RunInLoopStart(c) ==
    /\ executing' = executing \ {<<"run_in_loop", c>>}
    /\ LoopRunning
    /\ ready # <<>>
    /\ Head(ready) = <<"run_in_loop", c>>
    /\ ready' = Tail(ready)
    /\ task' = [task EXCEPT ![c] = "running"]
    /\ invoked' = [invoked EXCEPT ![c] = @ + 1]
    /\ UNCHANGED <<workerVars, mpc, waited, callerVars, future, taskOutcome>>

\* Variant of RunInLoopFail: the except branch is reached after create_task
\* succeeded, so the exception is stored and the task runs all the same.
RunInLoopFail_TaskCreated(c) ==
    /\ executing' = executing \ {<<"run_in_loop", c>>}
    /\ LoopRunning
    /\ ready # <<>>
    /\ Head(ready) = <<"run_in_loop", c>>
    /\ ready' = Tail(ready)
    /\ task' = [task EXCEPT ![c] = "running"]
    /\ invoked' = [invoked EXCEPT ![c] = @ + 1]
    /\ future' = [future EXCEPT ![c] = Outcome("err", c)]
    /\ UNCHANGED <<workerVars, mpc, waited, callerVars, taskOutcome>>

\* run_in_loop, except branch: creating the coroutine or the task raised;
\* the exception goes straight into response_future.
RunInLoopFail(c) ==
    /\ executing' = executing \ {<<"run_in_loop", c>>}
    /\ LoopRunning
    /\ ready # <<>>
    /\ Head(ready) = <<"run_in_loop", c>>
    /\ ready' = Tail(ready)
    /\ task' = [task EXCEPT ![c] = "failed"]
    /\ invoked' = [invoked EXCEPT ![c] = @ + 1]
    /\ taskOutcome' = [taskOutcome EXCEPT ![c] = Outcome("err", c)]
    /\ future' = [future EXCEPT ![FutureOf(c)] = Outcome("err", c)]
    /\ UNCHANGED <<workerVars, mpc, waited, callerVars>>

\* Variant of WorkerAfterError: the Exception escapes and stops the loop.
WorkerAfterError_Stops == "stopped"

\* What an Exception raised by an operation does to the agent thread: nothing,
\* asyncio stores it in the task.
WorkerAfterError == wpc

\* The operation's task finishes by returning (k = "val") or by raising an
\* Exception (k = "err"); asyncio schedules its done callback with call_soon.
TaskFinish(c, k) ==
    /\ executing' = executing \ {<<"step", c>>}
    /\ LoopRunning
    /\ task[c] = "running"
    /\ task' = [task EXCEPT ![c] = "done"]
    /\ taskOutcome' = [taskOutcome EXCEPT ![c] = Outcome(k, c)]
    /\ ready' = Append(ready, <<"set_result", c>>)
    /\ wpc' = IF k = "err" THEN WorkerAfterError ELSE wpc
    /\ UNCHANGED <<agent, agent_ready, agent_loop, initLog, initFailed>>
    /\ UNCHANGED <<mpc, waited, callerVars, future, invoked>>

\* The operation raises SystemExit or KeyboardInterrupt: the task stores it
\* and re-raises, the loop stops running and the agent thread reaches the
\* finally block of background_start_agent.
TaskExit(c) ==
    /\ executing' = executing \ {<<"step", c>>}
    /\ LoopRunning
    /\ task[c] = "running"
    /\ task' = [task EXCEPT ![c] = "done"]
    /\ taskOutcome' = [taskOutcome EXCEPT ![c] = Outcome("exit", c)]
    /\ ready' = Append(ready, <<"set_result", c>>)
    /\ wpc' = "stopped"
    /\ UNCHANGED <<agent, agent_ready, agent_loop, initLog, initFailed>>
    /\ UNCHANGED <<mpc, waited, callerVars, future, invoked>>

\* The done callback set_result(task): task.result() returns or raises, and
\* response_future gets set_result or set_exception.
SetResult(c) ==
    /\ executing' = executing \ {<<"set_result", c>>}
    /\ LoopRunning
    /\ ready # <<>>
    /\ Head(ready) = <<"set_result", c>>
    /\ ready' = Tail(ready)
    /\ future' = [future EXCEPT ![FutureOf(c)] = taskOutcome[c]]
    /\ UNCHANGED <<workerVars, mpc, waited, callerVars, task, taskOutcome, invoked>>

----------------------------------------------------------------------------

Next ==
    \/ ThreadStart
    \/ MainSleep
    \/ MainSeesReady
    \/ MainStartupTimeout
    \/ CreateLoop
    \/ AgentSetupOk
    \/ AgentSetupFail
    \/ UmlSetupOk
    \/ UmlSetupFail
    \/ LoopClose
    \/ \E c \in Calls, e \in Endpoints : Enter(c, e)
    \/ \E c \in Calls : Precondition(c)
    \/ \E c \in Calls : Enqueue(c)
    \/ \E c \in Calls : AwaitResult(c)
    \/ \E c \in Calls : AwaitTimeout(c)
    \/ \E c \in Calls : RunInLoopStart(c)
    \/ \E c \in Calls : RunInLoopFail(c)
    \/ \E c \in Calls, k \in {"val", "err"} : TaskFinish(c, k)
    \/ \E c \in Calls : TaskExit(c)
    \/ \E c \in Calls : SetResult(c)

Spec == Init /\ [][Next]_vars

----------------------------------------------------------------------------
(* The agent thread at the grain of single handles: the loop picks a       *)
(* handle, runs it to its end (or to its next await), then picks another.  *)

\* Variant of LoopIdle: handles are handed to a pool of threads.
LoopIdle_Parallel == TRUE

\* The one thread of the loop is between two handles.
LoopIdle == executing = {}

\* Handles the loop can pick: the head of its FIFO, the wake-up of a task
\* suspended in an await, the wake-up of start_agent suspended in a setup.
Runnable ==
    (IF ready # <<>> THEN {Head(ready)} ELSE {})
      \cup {<<"step", c>> : c \in {d \in Calls : task[d] = "running"}}
      \cup (IF wpc \in {"agent_setup", "uml_setup"} THEN {<<"start_agent", 0>>} ELSE {})

\* loop._run_once takes the next handle.
PickHandle(h) ==
    /\ LoopRunning
    /\ LoopIdle
    /\ h \in Runnable
    /\ executing' = executing \cup {h}
    /\ UNCHANGED <<workerVars, mpc, waited, callerVars, loopVars>>

\* The picked handle runs.
RunHandle(h) ==
    /\ h \in executing
    /\ \/ h[1] = "start_agent" /\ (AgentSetupOk \/ AgentSetupFail \/ UmlSetupOk \/ UmlSetupFail)
       \/ h[1] = "run_in_loop" /\ (RunInLoopStart(h[2]) \/ RunInLoopFail(h[2]))
       \/ h[1] = "step" /\ (TaskFinish(h[2], "val") \/ TaskFinish(h[2], "err") \/ TaskExit(h[2]))
       \/ h[1] = "set_result" /\ SetResult(h[2])

Handles ==
    {<<"start_agent", 0>>} \cup ({"run_in_loop", "step", "set_result"} \X Calls)

HandleNext ==
    \/ ThreadStart
    \/ MainSleep
    \/ MainSeesReady
    \/ MainStartupTimeout
    \/ CreateLoop
    \/ LoopClose
    \/ \E c \in Calls, e \in Endpoints : Enter(c, e)
    \/ \E c \in Calls : Precondition(c)
    \/ \E c \in Calls : Enqueue(c)
    \/ \E c \in Calls : AwaitResult(c)
    \/ \E c \in Calls : AwaitTimeout(c)
    \/ \E h \in Handles : PickHandle(h)
    \/ \E h \in Handles : RunHandle(h)

HandleSpec == Init /\ [][HandleNext]_vars

----------------------------------------------------------------------------
(* Shared vocabulary of the properties                                     *)

Entered(c) == pc[c] # "idle"
Answered(c) == pc[c] = "done"
Status(c) == result[c].status

\* The result a caller must get for what its own operation produced.
OwnResult(c) ==
    IF taskOutcome[c].kind = "val" THEN [status |-> "success", of |-> c]
    ELSE [status |-> "WorkerException", of |-> c]

----------------------------------------------------------------------------
\* C1: a request that enters a capability endpoint (chat, create_index,
\* delete_index, update_label, generate_uml) while agent_ready is unset is
\* answered NotReady and its operation is never invoked on the agent thread.
\* While agent_ready is unset every request so far was entered with it unset.
\* The formula is the second half of the claim (no invocation, no task), so
\* a state violating it violates the claim.
C1_NotReadyNeverInvoked ==
    ~agent_ready =>
        \A c \in Calls :
            Entered(c) => (invoked[c] = 0 /\ task[c] = "none")

\* C2: a run_in_agent_thread call whose precondition test runs while
\* agent_loop is None or closed ends at once with Unavailable (RuntimeError):
\* it never waits, the loop's queue, the tasks, the futures and the
\* invocation counts are untouched; and a closed agent_loop stays closed.
C2_UnavailableFailsFast ==
    [][ /\ \A c \in Calls :
             (pc[c] = "submit" /\ agent_loop \in {"None", "closed"} /\ pc'[c] # "submit") =>
                 /\ pc'[c] = "done"
                 /\ result'[c].status = "Unavailable"
                 /\ ready' = ready
                 /\ task' = task
                 /\ future' = future
                 /\ invoked' = invoked
        /\ agent_loop = "closed" => agent_loop' = "closed"
      ]_vars

\* C2 witness: a request through the dispatcher was answered Unavailable with
\* the loop closed, and its operation was never invoked.
C2_Witness ==
    \E c \in Calls :
        /\ agent_loop = "closed"
        /\ endpoint[c] \in {"chat", "delete_index", "generate_uml"}
        /\ Answered(c) /\ Status(c) = "Unavailable"
        /\ invoked[c] = 0 /\ task[c] = "none"

\* C3 as stated: if the operation's task has finished (returned or raised)
\* when the caller stops waiting, the caller gets exactly that outcome.
C3_TaskFinishedGivesOutcome ==
    [][ \A c \in Calls :
          (/\ pc[c] = "wait"
           /\ task[c] \in {"done", "failed"}
           /\ taskOutcome[c].kind \in {"val", "err"}
           /\ pc'[c] = "done") => result'[c] = OwnResult(c)
      ]_vars

\* C3 amended: if response_future has been completed (set_result /
\* set_exception has run) when the caller stops waiting, the caller gets
\* exactly what its own operation produced, a value as success and an
\* Exception as WorkerException; an answer, once given, never changes.
C3_CompletedFutureGivesOutcome ==
    [][ \A c \in Calls :
          /\ (pc[c] = "wait" /\ future[c] # Unset /\ pc'[c] = "done") =>
                 /\ future[c] = taskOutcome[c]
                 /\ result'[c] = OwnResult(c)
          /\ Answered(c) => (pc'[c] = "done" /\ result'[c] = result[c])
      ]_vars

\* C3 witness: an operation raised inside its task and its caller got the
\* WorkerException of that very operation.
C3_Witness ==
    \E c \in Calls :
        /\ task[c] = "done" /\ taskOutcome[c] = [kind |-> "err", of |-> c]
        /\ Answered(c) /\ result[c] = [status |-> "WorkerException", of |-> c]

\* C4: a caller whose deadline elapses with the operation unfinished gets
\* Timeout and keeps it; whenever a future is completed it goes from unset
\* to the outcome of its own request's operation, so a late completion lands
\* only in the abandoned future of the request that timed out.
C4_TimeoutOnceNoCrossTalk ==
    [][ \A c \in Calls :
          /\ (pc[c] = "wait" /\ future[c] = Unset /\ pc'[c] = "done") =>
                 result'[c].status = "Timeout"
          /\ Status(c) = "Timeout" => result'[c] = result[c]
          /\ future'[c] # future[c] =>
                 /\ future[c] = Unset
                 /\ future'[c] = taskOutcome'[c]
                 /\ future'[c].of = c
                 /\ \A d \in Calls \ {c} : future'[d] = future[d]
                 /\ result' = result
      ]_vars

\* C4 witness: request 1 timed out (its future was unset then), its
\* operation's completion was written afterwards into its own future, and
\* request 2, entered only after request 1 was answered, got its own value.
C4_Witness ==
    /\ Status(1) = "Timeout"
    /\ future[1] = [kind |-> "val", of |-> 1]
    /\ ~overlap
    /\ result[2] = [status |-> "success", of |-> 2]

\* C5: with requests in flight together, a caller that gets a value or a
\* WorkerException gets the one produced by the operation it submitted.
C5_OwnOutcomeOnly ==
    \A c \in Calls :
        Status(c) \in {"success", "WorkerException"} =>
            /\ result[c].of = c
            /\ taskOutcome[c].of = c
            /\ (Status(c) = "success") = (taskOutcome[c].kind = "val")

\* C5 witness: request 2 was submitted while request 1 was in flight,
\* overtook it and got its own value while request 1's task is still running.
C5_Witness ==
    /\ pc[1] = "wait" /\ task[1] = "running"
    /\ overlap
    /\ result[2] = [status |-> "success", of |-> 2]

\* C6: when an operation raises an Exception (in its task or while being
\* started), the agent thread and its loop stay as they are, no other
\* request's task, outcome, future or answer changes, and a WorkerException
\* reaches only the caller of the operation that raised.
C6_ErrorIsolated ==
    [][ \A c \in Calls :
          /\ (taskOutcome[c] = Unset /\ taskOutcome'[c].kind = "err") =>
                 /\ wpc' = wpc
                 /\ agent_loop' = agent_loop
                 /\ agent_ready' = agent_ready
                 /\ \A d \in Calls \ {c} :
                        /\ task'[d] = task[d]
                        /\ taskOutcome'[d] = taskOutcome[d]
                        /\ future'[d] = future[d]
                        /\ result'[d] = result[d]
          /\ result'[c].status = "WorkerException" =>
                 /\ result'[c].of = c
                 /\ taskOutcome[c] = [kind |-> "err", of |-> c]
      ]_vars

\* C6 witness: request 1 got the WorkerException of its own operation, the
\* loop is still inside run_forever, and request 2, submitted after that
\* answer, succeeded.
C6_Witness ==
    /\ result[1] = [status |-> "WorkerException", of |-> 1]
    /\ ~overlap
    /\ result[2] = [status |-> "success", of |-> 2]
    /\ wpc = "run_forever"

\* C7: the step in which a caller gets Timeout changes nothing on the agent
\* thread (its task, the outcomes, the loop's queue, the thread itself), and
\* a running task never becomes anything but done: there is no cancellation.
C7_TimeoutDoesNotCancel ==
    [][ \A c \in Calls :
          /\ (Status(c) # "Timeout" /\ result'[c].status = "Timeout") =>
                 /\ task' = task
                 /\ taskOutcome' = taskOutcome
                 /\ ready' = ready
                 /\ wpc' = wpc
          /\ task[c] = "running" => task'[c] \in {"running", "done"}
      ]_vars

\* C7 witness: the caller has its Timeout and its task is still running on
\* a loop that is still inside run_forever.
C7_Witness ==
    \E c \in Calls :
        /\ Status(c) = "Timeout"
        /\ task[c] = "running"
        /\ future[c] = Unset
        /\ wpc = "run_forever"

\* C8: agent_ready is set only when agent.setup and then umlAgent.setup have
\* both returned, in that order, and never when start_agent took its except
\* branch.
C8_ReadyOnlyAfterAllSetup ==
    /\ agent_ready => initLog = <<"agent.setup", "umlAgent.setup">>
    /\ initFailed => ~agent_ready

\* C8 witness: both setups returned, the latch is set and the loop runs.
C8_Witness ==
    /\ agent_ready
    /\ initLog = <<"agent.setup", "umlAgent.setup">>
    /\ wpc = "run_forever"

\* C9: no step clears agent_ready.
C9_ReadyMonotonic == [][agent_ready => agent_ready']_vars

\* C9 witness: after an operation failure, a timeout and the teardown of the
\* loop, agent_ready is still set.
C9_Witness ==
    /\ agent_ready
    /\ agent_loop = "closed"
    /\ \E c \in Calls : Status(c) = "Timeout"
    /\ \E c \in Calls : Status(c) = "WorkerException"

\* A setup routine that returned.
SetupCompleted(cap) ==
    \E i \in 1 .. Len(initLog) :
        initLog[i] = (IF cap = "agent" THEN "agent.setup" ELSE "umlAgent.setup")

\* C10: once a setup routine has failed, no operation of a capability whose
\* setup did not return is started on the agent thread. (The claim also asks
\* for that capability's reference to be null; the formula asks less, so a
\* step violating it violates the claim.)
C10_NoOperationOnFailedCapability ==
    [][ \A c \in Calls :
          (initFailed /\ invoked'[c] > invoked[c]) =>
              SetupCompleted(CapabilityRef(endpoint[c]))
      ]_vars

\* C11: a response_future that has been completed never changes again, and
\* the step that completes it is a step of the agent thread's loop: the
\* caller of that request does not move in it and the loop is running.
C11_FutureSetOnce ==
    [][ \A c \in Calls :
          /\ future[c] # Unset => future'[c] = future[c]
          /\ future'[c] # future[c] =>
                 /\ LoopRunning
                 /\ pc' = pc
                 /\ result' = result
                 /\ future'[c].kind \in {"val", "err"}
      ]_vars

\* C11 witness: one future was completed by run_in_loop's except branch and
\* another by the done callback.
C11_Witness ==
    \E c, d \in Calls :
        /\ task[c] = "failed" /\ future[c] = [kind |-> "err", of |-> c]
        /\ task[d] = "done" /\ future[d] = [kind |-> "val", of |-> d]

----------------------------------------------------------------------------
(* Endpoints, after run_in_agent_thread has returned or raised             *)

\* What the model does not keep of an outcome: for a returned value whether
\* it is a well-formed string ("str"), a string json.loads rejects
\* ("unparseable") or None; for a raised exception whether it is a ValueError.
OutcomeShapes(status) ==
    IF status = "success" THEN {"str", "unparseable", "None"}
    ELSE IF status = "WorkerException" THEN {"Exception", "ValueError"}
    ELSE {"n/a"}

\* What leaves the endpoint: a dict with status success ("tagged_success"),
\* a dict with status error ("tagged_error"), or a raised HTTPException.
\* json.JSONDecodeError is a ValueError, and generate_uml turns every
\* ValueError of its try body into `raise HTTPException(400)`.
EndpointResponse(e, status, shape) ==
    IF status \in {"NotReady", "Unavailable", "NullCapability", "Timeout"}
      THEN "tagged_error"
    ELSE IF e = "chat"
      THEN IF status = "success" /\ shape # "None" THEN "tagged_success"
           ELSE "tagged_error"
    ELSE IF e = "generate_uml"
      THEN IF status = "success"
             THEN IF shape = "str" THEN "tagged_success"
                  ELSE IF shape = "unparseable" THEN "raised_HTTPException"
                  ELSE "tagged_error"
             ELSE IF shape = "ValueError" THEN "raised_HTTPException"
                  ELSE "tagged_error"
    ELSE IF status = "success" THEN "tagged_success" ELSE "tagged_error"

\* C12: whatever a request that went through an endpoint was answered with,
\* and whatever the shape of the operation's value or exception, the endpoint
\* returns a tagged result (status success or error, with a message) and
\* raises nothing.
C12_AlwaysTagged ==
    \A c \in Calls :
        Answered(c) =>
            \A shape \in OutcomeShapes(Status(c)) :
                EndpointResponse(endpoint[c], Status(c), shape)
                    \in {"tagged_success", "tagged_error"}

\* C13: the main thread reaches uvicorn.run only from its wait loop, with
\* agent_ready set or with the startup timeout (30 s of 0.5 s sleeps) used
\* up, and no request is entered before that.
C13_ServeAfterReadyOrTimeout ==
    [][ /\ (mpc # "serving" /\ mpc' = "serving") =>
               /\ mpc = "waiting"
               /\ agent_ready \/ waited >= 60
        /\ \A c \in Calls : (pc[c] = "idle" /\ pc'[c] # "idle") => mpc = "serving"
      ]_vars

\* C13 witness: the server is up after the timeout with agent_ready unset,
\* the agent thread is still inside a setup routine, and a request has been
\* answered NotReady.
C13_Witness ==
    /\ mpc = "serving"
    /\ ~agent_ready
    /\ wpc \in {"agent_setup", "uml_setup"}
    /\ \E c \in Calls : Status(c) = "NotReady"

\* C14: a response_future is completed only when its operation has finished
\* (returned, raised, or failed to start) and holds what the operation
\* produced; a caller holds a value or a WorkerException only when its
\* future has been completed.
C14_SignalAfterFinish ==
    \A c \in Calls :
        /\ future[c] # Unset =>
               /\ task[c] \in {"done", "failed"}
               /\ taskOutcome[c] = future[c]
        /\ Status(c) \in {"success", "WorkerException"} => future[c] # Unset

\* C14 witness: an operation returned, the callback stored the value and the
\* caller has read it.
C14_Witness ==
    \E c \in Calls :
        /\ task[c] = "done"
        /\ future[c] = [kind |-> "val", of |-> c]
        /\ result[c] = [status |-> "success", of |-> c]

\* C15: at most one handle (a step of start_agent, a trampoline, a step of
\* an operation's task, a done callback) is executing at any time, and only
\* while the agent thread is inside its loop, whatever the number of
\* operations in flight and of callers between their steps.
C15_OneHandleAtATime ==
    /\ Cardinality(executing) <= 1
    /\ executing # {} => LoopRunning

\* C15 witness: a done callback is executing while another operation's task
\* is suspended in flight and its caller is waiting.
C15_Witness ==
    \E c, d \in Calls :
        /\ c # d
        /\ executing = {<<"set_result", c>>}
        /\ task[d] = "running" /\ pc[d] = "wait"

\* C16: when the task of an operation B starts, the task of every other
\* operation A whose caller already received A's outcome (success or
\* WorkerException) has finished; and when A's caller got Timeout with A's
\* task still running, the loop can start B's task all the same.
C16_OutcomeOrdersTasks ==
    [][ \A b \in Calls :
          /\ (task[b] # "running" /\ task'[b] = "running") =>
                \A a \in Calls \ {b} :
                    Status(a) \in {"success", "WorkerException"} =>
                        task[a] \in {"done", "failed"}
          /\ \A a \in Calls \ {b} :
                (/\ Status(a) = "Timeout" /\ task[a] = "running"
                 /\ LoopRunning /\ ready # <<>> /\ Head(ready) = <<"run_in_loop", b>>)
                    => ENABLED RunInLoopStart(b) ]_vars

\* C16 witness: requests entered one after the other's answer; the first
\* ended in Timeout and its task is still running when the second's task runs.
C16_Witness ==
    /\ ~overlap
    /\ Status(1) = "Timeout" /\ task[1] = "running"
    /\ task[2] = "running"

\* Position of a call of run_in_agent_thread: it only moves forward.
Rank(p) ==
    IF p = "idle" THEN 0 ELSE IF p = "submit" THEN 1
    ELSE IF p = "enqueue" THEN 2 ELSE IF p = "wait" THEN 3 ELSE 4

\* The caller of c is inside run_in_agent_thread.
InDispatcher(c) == pc[c] \in {"submit", "enqueue", "wait"}

\* C17: a call of run_in_agent_thread always has a next step of its own, each
\* step moves it forward (so it returns after at most three steps), and it
\* returns success, WorkerException, Timeout or Unavailable.  When the loop
\* has stopped or is closed while the call waits unsignaled, the call is
\* never signaled afterwards, its only step is the timeout, and its result is
\* Timeout, not Unavailable.
C17_CallAlwaysReturns ==
    [][ \A c \in Calls :
          /\ InDispatcher(c) =>
                ENABLED (Precondition(c) \/ Enqueue(c) \/ AwaitResult(c) \/ AwaitTimeout(c))
          /\ pc'[c] # pc[c] => Rank(pc'[c]) > Rank(pc[c])
          /\ (InDispatcher(c) /\ pc'[c] = "done") =>
                result'[c].status \in {"success", "WorkerException", "Timeout", "Unavailable"}
          /\ (pc[c] = "wait" /\ future[c] = Unset /\ ~LoopRunning) =>
                /\ future'[c] = Unset
                /\ ~ENABLED AwaitResult(c)
                /\ ENABLED AwaitTimeout(c)
                /\ pc'[c] = "done" => result'[c] = Res("Timeout", 0) ]_vars

\* C17 witness: the loop was closed with the trampoline of a call still in
\* its queue, and the call returned Timeout.
C17_Witness ==
    \E c \in Calls :
        /\ wpc = "closed"
        /\ \E i \in 1 .. Len(ready) : ready[i] = <<"run_in_loop", c>>
        /\ future[c] = Unset
        /\ pc[c] = "done" /\ Status(c) = "Timeout"

\* The trampoline of call c is in the loop's queue.
Queued(c) == \E i \in 1 .. Len(ready) : ready[i] = <<"run_in_loop", c>>

\* C18: agent_loop is published before start_agent runs, the agent thread
\* goes on to run the loop whether the setup succeeded or failed, from then
\* on until the loop is closed the dispatcher's precondition passes, and an
\* enqueued trampoline is run by the loop, also while agent_ready is unset.
\* A loop that left run_until_complete / run_forever never runs again, so a
\* trampoline that is queued needs the loop to be running.
C18_EnqueuedTrampolineIsRun ==
    /\ wpc \in {"agent_setup", "uml_setup", "run_forever", "stopped"} =>
          (agent_loop = "open" /\ ~LoopUnavailable)
    /\ \A c \in Calls : Queued(c) => LoopRunning

\* C19: a call of run_in_agent_thread calls its operation at most once: not
\* at all when it ended before the wait (NotReady, Unavailable, null
\* reference) or while its trampoline is still queued (a closed loop leaves it
\* there), once when the trampoline has run; a Timeout leaves the count as is.
C19_InvokedAtMostOnce ==
    \A c \in Calls :
        /\ invoked[c] <= 1
        /\ Status(c) \in {"NotReady", "Unavailable", "NullCapability"} => invoked[c] = 0
        /\ Queued(c) => invoked[c] = 0
        /\ (~Queued(c) /\ (pc[c] = "wait" \/ Status(c) \in {"success", "WorkerException", "Timeout"}))
              => invoked[c] = 1

\* C19 witness: one call timed out and its operation, called once, finished
\* afterwards unobserved; another call found the loop closed.
C19_Witness ==
    \E c, d \in Calls :
        /\ Status(c) = "Timeout" /\ invoked[c] = 1 /\ task[c] = "done"
        /\ future[c] = Unset
        /\ Status(d) = "Unavailable" /\ invoked[d] = 0

====
